---- MODULE Spec2Model ----
(***************************************************************************)
(* Verification model of the analysis-orchestration core of               *)
(* polymarket_agents:                                                      *)
(*   - EnhancedExecutor (application/enhanced_executor.py): construction,  *)
(*     enhanced_market_analysis, _execute_with_retry, get_trace_url;       *)
(*   - the shared retry executor (common/retry.py);                        *)
(*   - MCPServerManager.create_server (common/mcp_base.py) and             *)
(*     AgentFactory.create_agent (application/agent_factory.py);           *)
(*   - the recommendation parser called on its own;                        *)
(*   - Trader.one_best_trade (application/trade.py) and its trade gate.    *)
(*                                                                         *)
(* Coroutines are cut at their suspension points (every await): one action *)
(* is the code that runs between two awaits.  Remote collaborators (the    *)
(* model-invocation service, the tool server, its constructor) answer      *)
(* nondeterministically.                                                   *)
(***************************************************************************)
EXTENDS Integers, Sequences, FiniteSets, TLC

\* ------------------------------------------------------------------ bounds
\* largest agent_config.max_retries explored (AgentConfig.max_retries)
MaxRetries == 3
\* number of enhanced_market_analysis calls made, one after the other, on
\* one executor
MaxCalls == 2
\* largest RetryConfig.max_retries explored
MaxR == 3

\* Coroutines that may run enhanced_market_analysis on the executor; Main is
\* the one of a caller that makes its calls one after the other.
Tasks == {1, 2}
Main == 1

\* ------------------------------------------------------------- error values
\* The `retryable` attribute an exception class of common/errors.py sets on
\* its instances; built-in exceptions have no such attribute.
\* (MCPError defaults to retryable = True.)
DefaultTag(t) ==
    CASE t \in {"RetryableError", "MCPError"}              -> "True"
      [] t \in {"NonRetryableError", "ConfigurationError",
                "TradingError"}                            -> "False"
      [] OTHER                                             -> "absent"

\* An error raised by a collaborator: its Python type, its `retryable`
\* attribute, and the phase and ordinal of the invocation that raised it
\* (its identity).
RemoteError(t, ph, k) ==
    [type |-> t, retryable |-> DefaultTag(t), phase |-> ph, k |-> k]

\* "no error": the value None of last_error before any attempt failed
NoError == [type |-> "None", retryable |-> "absent", phase |-> "none", k |-> 0]

\* Error types the model-invocation service raises inside the pipeline:
\* a transient transport error, an error tagged retryable = False, and a
\* protocol error of the tool server.
RunnerErrors == {"ConnectionError", "ConfigurationError", "MCPError"}

\* -------------------------------------------------- recommendation parser
\* A text is a sequence of tokens (words, numbers, the sign "%"); tokens are
\* written in their original case.  str.lower() on the tokens that occur:
Lower(t) ==
    CASE t = "Recommendation:" -> "recommendation:"
      [] t = "Confidence:"     -> "confidence:"
      [] t = "Reasoning:"      -> "reasoning:"
      [] t = "BUY"             -> "buy"
      [] t = "SELL"            -> "sell"
      [] t = "HOLD"            -> "hold"
      [] OTHER                 -> t

\* str.upper() of the group matched by (buy|sell|hold)
Upper(t) ==
    CASE t = "buy"  -> "BUY"
      [] t = "sell" -> "SELL"
      [] t = "hold" -> "HOLD"
      [] OTHER      -> t

content_lower(content) == [i \in DOMAIN content |-> Lower(content[i])]

\* tokens matched by \d+ and their value
NumTokens == {"5", "60", "69", "70", "75", "80", "99", "150"}
NumVal(t) ==
    CASE t = "5" -> 5 [] t = "60" -> 60 [] t = "69" -> 69 [] t = "70" -> 70
      [] t = "75" -> 75 [] t = "80" -> 80 [] t = "99" -> 99
      [] t = "150" -> 150
      [] OTHER -> 0

FirstOf(S) == CHOOSE i \in S : \A j \in S : i <= j

\* The keyword a token begins with: `in` and re.search look for substrings,
\* so 'buyers' holds 'buy' and 'selling' holds 'sell'
Stem(t) ==
    CASE t = "buyers"  -> "buy"
      [] t = "selling" -> "sell"
      [] OTHER         -> t

\* re.search(r'recommendation:\s*(buy|sell|hold)', content_lower)
RecMatches(cl) ==
    {i \in DOMAIN cl : /\ cl[i] = "recommendation:"
                       /\ i + 1 \in DOMAIN cl
                       /\ Stem(cl[i + 1]) \in {"buy", "sell", "hold"}}

\* `"a b" in content_lower`
Adjacent(cl, a, b) ==
    \E i \in DOMAIN cl :
        cl[i] = a /\ i + 1 \in DOMAIN cl /\ Stem(cl[i + 1]) = b

\* `a in content_lower`
Has(cl, a) == \E i \in DOMAIN cl : Stem(cl[i]) = a

\* a run of whitespace at the start or the end of a text (between two
\* tokens whitespace is implied)
WS == "  "

\* str.strip()
RECURSIVE Strip(_)
Strip(seq) ==
    IF seq = <<>> THEN seq
    ELSE IF Head(seq) = WS THEN Strip(Tail(seq))
    ELSE IF seq[Len(seq)] = WS THEN Strip(SubSeq(seq, 1, Len(seq) - 1))
    ELSE seq

\* variant of ParseRecommendation: the heuristics look for 'sell' first
ParseRecommendation_sell(cl) ==
    IF Has(cl, "recommendation:")
    THEN IF RecMatches(cl) # {}
         THEN Upper(Stem(cl[FirstOf(RecMatches(cl)) + 1]))
         ELSE "HOLD"
    ELSE IF Adjacent(cl, "strong", "sell")
            \/ (Has(cl, "sell") /\ ~Adjacent(cl, "don't", "sell"))
         THEN "SELL"
         ELSE IF Adjacent(cl, "strong", "buy")
                 \/ (Has(cl, "buy") /\ ~Adjacent(cl, "don't", "buy"))
              THEN "BUY"
              ELSE "HOLD"

\* variant of ParseRecommendation: the keyword heuristics are tried before
\* the label
ParseRecommendation_m(cl) ==
    IF Adjacent(cl, "strong", "buy")
       \/ (Has(cl, "buy") /\ ~Adjacent(cl, "don't", "buy"))
    THEN "BUY"
    ELSE IF Adjacent(cl, "strong", "sell")
            \/ (Has(cl, "sell") /\ ~Adjacent(cl, "don't", "sell"))
         THEN "SELL"
         ELSE IF RecMatches(cl) # {}
              THEN Upper(Stem(cl[FirstOf(RecMatches(cl)) + 1]))
              ELSE "HOLD"

\* the recommendation branch of _parse_trading_recommendation
ParseRecommendation(cl) ==
    IF Has(cl, "recommendation:")
    THEN IF RecMatches(cl) # {}
         THEN Upper(Stem(cl[FirstOf(RecMatches(cl)) + 1]))
         ELSE "HOLD"
    ELSE IF Adjacent(cl, "strong", "buy")
            \/ (Has(cl, "buy") /\ ~Adjacent(cl, "don't", "buy"))
         THEN "BUY"
         ELSE IF Adjacent(cl, "strong", "sell")
                 \/ (Has(cl, "sell") /\ ~Adjacent(cl, "don't", "sell"))
              THEN "SELL"
              ELSE "HOLD"

IsConfWord(t) == t \in {"confidence", "confidence:"}

\* the four confidence_patterns, each as the set of positions of the number
ConfPattern1(cl) ==
    {i \in DOMAIN cl : /\ cl[i] \in NumTokens
                       /\ i - 1 \in DOMAIN cl /\ IsConfWord(cl[i - 1])
                       /\ i + 1 \in DOMAIN cl /\ cl[i + 1] = "%"}
ConfPattern2(cl) ==
    {i \in DOMAIN cl : /\ cl[i] \in NumTokens
                       /\ i - 1 \in DOMAIN cl /\ IsConfWord(cl[i - 1])}
ConfPattern3(cl) ==
    {i \in DOMAIN cl : /\ cl[i] \in NumTokens
                       /\ i + 1 \in DOMAIN cl /\ cl[i + 1] = "%"
                       /\ i + 2 \in DOMAIN cl /\ IsConfWord(cl[i + 2])}
ConfPattern4(cl) ==
    {i \in DOMAIN cl : /\ cl[i] \in NumTokens
                       /\ i + 1 \in DOMAIN cl /\ cl[i + 1] = "percent"
                       /\ i + 2 \in DOMAIN cl /\ IsConfWord(cl[i + 2])}

\* confidence in hundredths: float(match.group(1)) / 100 is NumVal percent;
\* the default 0.5 is 50
ParseConfidence(cl) ==
    IF ConfPattern1(cl) # {} THEN NumVal(cl[FirstOf(ConfPattern1(cl))])
    ELSE IF ConfPattern2(cl) # {} THEN NumVal(cl[FirstOf(ConfPattern2(cl))])
    ELSE IF ConfPattern3(cl) # {} THEN NumVal(cl[FirstOf(ConfPattern3(cl))])
    ELSE IF ConfPattern4(cl) # {} THEN NumVal(cl[FirstOf(ConfPattern4(cl))])
    ELSE 50

\* variant of ParseReasoning: the reasoning section is not extracted
ParseReasoning_m(content) == content

\* re.search(r'reasoning:(.*?)(?=recommendation:|confidence:|$)', content,
\*           re.IGNORECASE | re.DOTALL), group(1).strip()
ParseReasoning(content) ==
    LET cl     == content_lower(content)
        starts == {i \in DOMAIN cl : cl[i] = "reasoning:"}
    IN IF starts = {} THEN content
       ELSE LET s     == FirstOf(starts)
                stops == {j \in DOMAIN cl :
                            j > s /\ cl[j] \in {"recommendation:", "confidence:"}}
                e     == IF stops = {} THEN Len(content) + 1 ELSE FirstOf(stops)
            IN Strip(SubSeq(content, s + 1, e - 1))

\* get_trace_url(): the URL is the trace id behind a fixed prefix; 0 stands
\* for "No trace ID available"
get_trace_url(tid) ==
    IF tid # 0
    THEN [url |-> "https://platform.openai.com/traces/trace?trace_id=", trace_id |-> tid]
    ELSE [url |-> "No trace ID available", trace_id |-> 0]

\* the value None under the key "trace_url"
NoTraceUrl == [url |-> "None", trace_id |-> 0]

\* "error" key absent from the returned dict
NoErrorKey == [type |-> "absent"]

\* a content argument that is not a str (None, a structured output):
\* content.lower() at line 305 raises for it
NotAString == <<"<not a str>">>

IsStr(content) == content # NotAString

\* variant of ParserCatches: the handler does not cover the error
ParserCatches_m(e) == FALSE

\* `except Exception as e` of _parse_trading_recommendation, line 347
ParserCatches(e) == TRUE

\* _parse_trading_recommendation(content): the dict of lines 338-345, or
\* the dict of lines 349-356 when the body raised.  A key a dict does not
\* have is a field the record does not have; "error", which neither dict
\* has, is carried as NoErrorKey.
_parse_trading_recommendation(content, tid) ==
    IF IsStr(content)
    THEN [recommendation |-> ParseRecommendation(content_lower(content)),
          confidence     |-> ParseConfidence(content_lower(content)),
          reasoning      |-> ParseReasoning(content),
          full_analysis  |-> content,
          analysis_type  |-> "enhanced_ai_mcp",
          trace_url      |-> get_trace_url(tid),
          error          |-> NoErrorKey]
    ELSE [recommendation |-> "HOLD",
          confidence     |-> 0,
          reasoning      |-> content,
          analysis_type  |-> "enhanced_ai_mcp",
          parse_error    |-> "AttributeError",
          trace_url      |-> get_trace_url(tid),
          error          |-> NoErrorKey]

\* final outputs the model-invocation service returns
Texts ==
    { <<"Recommendation:", "BUY", "Confidence:", "80", "%",
        "Reasoning:", "strong", "signal">>,
      <<"Recommendation:", "SELL", "Confidence:", "60", "%">>,
      <<"markets", "look", "flat">>,
      <<"Recommendation:", "BUY", "Confidence:", "75", "%">>,
      <<"Recommendation:", "BUY">>,
      <<"Recommendation:", "HOLD", "Confidence:", "99", "%">>,
      <<"Recommendation:", "SELL", "Confidence:", "70", "%",
        "Reasoning:", "don't", "buy">>,
      <<"Recommendation:", "BUY", "Confidence:", "150", "%">> }

\* ------------------------------------------------------------------- state
VARIABLES
    \* module flag MCP_AVAILABLE (enhanced_executor.py:23-29)
    MCP_AVAILABLE,
    \* EnhancedExecutor object
    ex_pc,            \* "new" | "ready" | "raised": position of __init__;
                      \* "none" when no executor is built
    agent_config,     \* [max_retries, timeout]
    mcp_server,       \* "None" | "server"
    ctor_failed,      \* MCPServerSse(...) raised inside __init__
    trace_id,         \* 0 = None, else the id produced by gen_trace_id()
    agent_context,    \* 0 = {}, else the market id last written into it
    connected,        \* the tool-server session is open
    calls_made,       \* number of enhanced_market_analysis calls started
    \* one enhanced_market_analysis coroutine per call
    pc,               \* position of the coroutine
    market,           \* the market argument of the call
    retry,            \* loop variable of _execute_with_retry
    last_error,       \* last_error of _execute_with_retry
    mcp_success,
    result,           \* raw result of Runner.run, or NoResult
    pending,          \* exception travelling out of the async-with block
    aug_error,        \* the error the augmented phase swallowed
    returned,         \* the dict returned to the caller, or NotReturned
    escaped,          \* an exception left enhanced_market_analysis
    invoked,          \* number of Runner.run invocations per phase
    slept,            \* delays passed to asyncio.sleep, in order
    holding,          \* per task: inside `async with self.mcp_server`
    own_trace,        \* per task: the id gen_trace_id() gave this call
    \* one call of execute_with_retry / execute_with_retry_sync (retry.py)
    rt_config,        \* the RetryConfig
    rt_func,          \* [entry, kind]: which executor runs what kind of func
    rt_pc,            \* "try" | "sleep" | "returned" | "raised" | "hung"
    attempt,          \* loop variable
    rt_last_error,    \* last_error
    rt_calls,         \* number of invocations of func
    rt_sleeps,        \* delays slept, in order (milliseconds)
    rt_draws,         \* the random.uniform(0, 0.1) draw behind each delay
    rt_outcome,       \* the value returned or the error raised
    \* one call into mcp_base.py / agent_factory.py
    f_env,            \* what the collaborators of the call do
    f_config,         \* the MCPServerConfig argument, or NoConfig
    f_op,             \* the function called, "none" before the call
    f_result,         \* what it returned or raised
    f_constructed,    \* MCPServerSse(...) was called with f_config
    \* one call of _parse_trading_recommendation on its own
    p_content,        \* the content argument
    p_pc,             \* "call" | "returned"
    p_parsed,         \* the dict returned
    \* Trader (application/trade.py) and the Settings it runs under
    min_confidence_threshold,  \* Settings.min_confidence_threshold, percent
    t_pc,             \* position of one_best_trade
    should_trade,     \* the local should_trade: "unassigned", "True", "False"
    trade_side,       \* the local trade_side: "unassigned", "Yes", "No"
    t_exit            \* how one_best_trade ended, "none" while it runs

pipe_vars == <<MCP_AVAILABLE, ex_pc, agent_config, mcp_server, ctor_failed,
               trace_id, agent_context, connected, calls_made, pc, market, retry,
               last_error, mcp_success, result, pending, aug_error, returned,
               escaped, invoked, slept, holding, own_trace>>

retry_vars == <<rt_config, rt_func, rt_pc, attempt, rt_last_error, rt_calls,
                rt_sleeps, rt_draws, rt_outcome>>

factory_vars == <<f_env, f_config, f_op, f_result, f_constructed>>

parser_vars == <<p_content, p_pc, p_parsed>>

trade_vars == <<min_confidence_threshold, t_pc, should_trade, trade_side,
                t_exit>>

vars == <<pipe_vars, retry_vars, factory_vars, parser_vars, trade_vars>>

\* variables no step of enhanced_market_analysis writes
config_vars == <<MCP_AVAILABLE, ex_pc, agent_config, mcp_server, ctor_failed,
                 retry_vars, factory_vars, parser_vars, trade_vars>>

Markets == {1, 2}

NoResult == [final_output |-> <<>>, mode |-> "none", k |-> 0]
NotReturned == [status |-> "running"]

\* ------------------------------------------------- EnhancedExecutor.__init__
\* The configurations explored: a positive max_retries (AgentConfig's default
\* is 3) and a per-attempt timeout that is set (120) or unset (0).
InitPipeline ==
    /\ MCP_AVAILABLE \in BOOLEAN
    /\ ex_pc = "new"
    /\ agent_config \in [max_retries : 1..MaxRetries, timeout : {0, 120}]
    /\ mcp_server = "None"
    /\ ctor_failed = FALSE
    /\ trace_id = 0
    /\ agent_context = 0
    /\ connected = FALSE
    /\ calls_made = 0
    /\ pc = [c \in Tasks |-> "idle"]
    /\ market = [c \in Tasks |-> 0]
    /\ retry = [c \in Tasks |-> 0]
    /\ last_error = [c \in Tasks |-> NoError]
    /\ mcp_success = [c \in Tasks |-> FALSE]
    /\ result = [c \in Tasks |-> NoResult]
    /\ pending = [c \in Tasks |-> NoError]
    /\ aug_error = [c \in Tasks |-> NoError]
    /\ returned = [c \in Tasks |-> NotReturned]
    /\ escaped = [c \in Tasks |-> NoError]
    /\ invoked = [c \in Tasks |-> [aug |-> 0, basic |-> 0]]
    /\ slept = [c \in Tasks |-> <<>>]
    /\ holding = [c \in Tasks |-> FALSE]
    /\ own_trace = [c \in Tasks |-> 0]

\* variant of InitCatches: the handler does not cover the constructor's error
InitCatches_m(e) == FALSE

\* `except Exception` around MCPServerSse(...) in __init__ (line 79): every
\* error the constructor raises is an Exception
InitCatches(e) == TRUE

\* __init__, lines 68-91: the tool server is constructed only when the
\* dependency is present; a constructor failure leaves mcp_server = None
Construct ==
    /\ ex_pc = "new"
    /\ \E ctor \in {"ok", "raise"} :
         IF MCP_AVAILABLE
         THEN IF ctor = "ok"
              THEN /\ mcp_server' = "server"
                   /\ ex_pc' = "ready"
                   /\ UNCHANGED ctor_failed
              ELSE /\ mcp_server' = "None"
                   /\ ctor_failed' = TRUE
                   /\ ex_pc' = IF InitCatches(RemoteError("MCPError", "ctor", 0))
                               THEN "ready" ELSE "raised"
         ELSE /\ ctor = "ok"
              /\ ex_pc' = "ready"
              /\ UNCHANGED <<mcp_server, ctor_failed>>
    /\ trace_id' = 0
    /\ agent_context' = 0
    /\ UNCHANGED <<MCP_AVAILABLE, agent_config, connected, calls_made, pc, market, retry,
                   last_error, mcp_success, result, pending, aug_error,
                   returned, escaped, invoked, slept, holding, own_trace,
                   retry_vars, factory_vars,
                   parser_vars, trade_vars>>

\* ------------------------------------------------ enhanced_market_analysis
\* The locals and results of one call, as a record
Cur(c) ==
    [pc |-> pc[c], retry |-> retry[c], last_error |-> last_error[c],
     mcp_success |-> mcp_success[c], result |-> result[c],
     pending |-> pending[c], aug_error |-> aug_error[c],
     returned |-> returned[c], escaped |-> escaped[c]]

Set(c, nx) ==
    /\ pc' = [pc EXCEPT ![c] = nx.pc]
    /\ retry' = [retry EXCEPT ![c] = nx.retry]
    /\ last_error' = [last_error EXCEPT ![c] = nx.last_error]
    /\ mcp_success' = [mcp_success EXCEPT ![c] = nx.mcp_success]
    /\ result' = [result EXCEPT ![c] = nx.result]
    /\ pending' = [pending EXCEPT ![c] = nx.pending]
    /\ aug_error' = [aug_error EXCEPT ![c] = nx.aug_error]
    /\ returned' = [returned EXCEPT ![c] = nx.returned]
    /\ escaped' = [escaped EXCEPT ![c] = nx.escaped]

\* variant of FailureOutcome: the failure dict is built without the trace
FailureOutcome_m(e, tid) ==
    [error          |-> e,
     recommendation |-> "HOLD",
     confidence     |-> 0,
     reasoning      |-> <<"Analysis", "failed", "due", "to", "technical", "error">>,
     trace_url      |-> NoTraceUrl]

\* the dict built in the outer except block, lines 251-257
FailureOutcome(e, tid) ==
    [error          |-> e,
     recommendation |-> "HOLD",
     confidence     |-> 0,
     reasoning      |-> <<"Analysis", "failed", "due", "to", "technical", "error">>,
     trace_url      |-> IF tid # 0 THEN get_trace_url(tid) ELSE NoTraceUrl]

\* variant of OuterCatches: the handler names the package's own error
\* classes, so the bare Exception of _execute_with_retry passes it
OuterCatches_m(e) == e.type # "Exception"

\* `except Exception as e` of the outer try, line 249
OuterCatches(e) == TRUE

\* an exception reaches the outer try block of enhanced_market_analysis
Leave(st, e, tid) ==
    IF OuterCatches(e)
    THEN [st EXCEPT !.pc = "done", !.returned = FailureOutcome(e, tid)]
    ELSE [st EXCEPT !.pc = "raised", !.escaped = e]

\* variant of McpCatches: the handler catches tool-server errors only
McpCatches_m(e) == e.type = "MCPError"

\* `except Exception as mcp_error` around the async-with block, line 211
McpCatches(e) == TRUE

\* lines 211-217: the augmented phase failed; mcp_success = False and the
\* tool-less _execute_with_retry starts with retry = 0, last_error = None
McpExcept(st, e, tid) ==
    IF McpCatches(e)
    THEN [st EXCEPT !.pc = "basic_try", !.mcp_success = FALSE,
                    !.aug_error = e, !.pending = NoError,
                    !.retry = 0, !.last_error = NoError]
    ELSE Leave([st EXCEPT !.pending = NoError], e, tid)

\* variant of ProcessResults: the outcome is always tagged as tool-augmented
ProcessResults_m(st, tid) ==
    IF st.result # NoResult
    THEN [st EXCEPT
            !.pc = "done",
            !.returned =
                [_parse_trading_recommendation(st.result.final_output, tid)
                 EXCEPT !.analysis_type = "enhanced_ai_mcp"]]
    ELSE Leave(st, [type |-> "Exception", retryable |-> "absent",
                    attempts |-> 0, cause |-> NoError], tid)

\* lines 237-247: "Process results"
ProcessResults(st, tid) ==
    IF st.result # NoResult
    THEN [st EXCEPT
            !.pc = "done",
            !.returned =
                [_parse_trading_recommendation(st.result.final_output, tid)
                 EXCEPT !.analysis_type = IF st.mcp_success
                                          THEN "enhanced_ai_mcp"
                                          ELSE "basic_ai_no_mcp"]]
    ELSE Leave(st, [type |-> "Exception", retryable |-> "absent",
                    attempts |-> 0, cause |-> NoError], tid)

\* ------------------------------------------------------ _execute_with_retry
\* variant of Exhausted: the break test is off by one
Exhausted_m(r, n) == r >= n

\* line 275: `if retry >= max_retries - 1: break`
Exhausted(r, n) == r >= n - 1

\* lines 285-287: Exception(f"Operation failed after {max_retries} retries:
\* {str(last_error)}")
TerminalError(n, e) ==
    [type |-> "Exception", retryable |-> "absent", attempts |-> n, cause |-> e]

\* 2 ** r
RECURSIVE Pow2(_)
Pow2(r) == IF r = 0 THEN 1 ELSE 2 * Pow2(r - 1)

\* variant of Backoff: the delay grows linearly
Backoff_m(r) == 2 * r + 1

\* line 282: asyncio.sleep(2 ** retry)
Backoff(r) == Pow2(r)

\* What one Runner.run invocation does: return a result, raise, or not
\* answer at all ("hang")
RunnerOutcomes == {"ok", "hang"} \cup RunnerErrors

\* lines 266-271: with agent_config.timeout set, asyncio.wait_for turns an
\* invocation that does not answer into asyncio.TimeoutError
AttemptError(o, ph, k) ==
    RemoteError(IF o = "hang" THEN "TimeoutError" ELSE o, ph, k)

\* variant of Hangs: the invocation is awaited without asyncio.wait_for
Hangs_m(o, timeout) == o = "hang"

\* lines 266-271: an invocation that does not answer is awaited for ever
\* when agent_config.timeout is not set
Hangs(o, timeout) == o = "hang" /\ timeout = 0

\* variant of RaiseInBlock: the error reaches the handler of line 211
\* without __aexit__ having run
RaiseInBlock_m(st, e) == McpExcept(st, e, trace_id)

\* the terminal error of the augmented phase leaves the async-with block
RaiseInBlock(st, e) == [st EXCEPT !.pending = e, !.pc = "release"]

\* the terminal error of the tool-less phase reaches the outer try
RaiseOuter(st, e) == Leave(st, e, trace_id)

\* where the error raised by _execute_with_retry goes: the wrapper is called
\* at line 203 (phase "aug") and at line 229 (phase "basic")
RaiseFrom(st, e, ph) ==
    IF ph = "aug" THEN RaiseInBlock(st, e) ELSE RaiseOuter(st, e)

\* variant of SleepPc: every failed attempt waits as an attempt of the
\* augmented phase does
SleepPc_m(ph) == "aug_sleep"

SleepPc(ph) == IF ph = "aug" THEN "aug_sleep" ELSE "basic_sleep"

\* variant of TryPc: the next iteration is an attempt of the tool-less phase
TryPc_m(ph) == "basic_try"

TryPc(ph) == IF ph = "aug" THEN "aug_try" ELSE "basic_try"

\* one iteration of the for loop of _execute_with_retry whose attempt failed
\* with e (lines 273-282)
RetryFailed(st, e, n, ph) ==
    IF Exhausted(st.retry, n)
    THEN RaiseFrom([st EXCEPT !.last_error = e], TerminalError(n, e), ph)
    ELSE [st EXCEPT !.last_error = e, !.pc = SleepPc(ph)]

\* line 264, `for retry in range(max_retries)`, after the sleep of line 282:
\* the next iteration, or the end of the loop
LoopNext(st, n, ph) ==
    IF st.retry + 1 < n
    THEN [st EXCEPT !.retry = @ + 1, !.pc = TryPc(ph)]
    ELSE RaiseFrom(st, TerminalError(n, st.last_error), ph)

\* lines 110-198: build the request (market context, trace id, agent) and
\* enter the augmented phase if there is a tool server.  A task starts a
\* call when it is not inside one; what the previous call left in the task
\* (its locals, the dict it returned) is gone.
Start(c) ==
    /\ ex_pc = "ready"
    /\ pc[c] \in {"idle", "done", "raised"}
    /\ calls_made < MaxCalls
    /\ calls_made' = calls_made + 1
    /\ \E m \in Markets :
         /\ market' = [market EXCEPT ![c] = m]
         /\ agent_context' = m
    /\ trace_id' = calls_made + 1
    /\ Set(c, [pc |-> IF mcp_server # "None" THEN "acquire" ELSE "basic_try",
               retry |-> 0, last_error |-> NoError, mcp_success |-> FALSE,
               result |-> NoResult, pending |-> NoError, aug_error |-> NoError,
               returned |-> NotReturned, escaped |-> NoError])
    /\ invoked' = [invoked EXCEPT ![c] = [aug |-> 0, basic |-> 0]]
    /\ slept' = [slept EXCEPT ![c] = <<>>]
    /\ holding' = [holding EXCEPT ![c] = FALSE]
    /\ own_trace' = [own_trace EXCEPT ![c] = calls_made + 1]
    /\ UNCHANGED <<config_vars, connected>>

\* line 200: `async with self.mcp_server` - __aenter__ connects
Acquire(c) ==
    /\ pc[c] = "acquire"
    /\ \E o \in {"ok", "raise"} :
         IF o = "ok"
         THEN /\ connected' = TRUE
              /\ holding' = [holding EXCEPT ![c] = TRUE]
              /\ Set(c, [Cur(c) EXCEPT !.pc = "aug_try", !.retry = 0,
                                       !.last_error = NoError])
         ELSE /\ UNCHANGED <<connected, holding>>
              /\ Set(c, McpExcept(Cur(c), RemoteError("MCPError", "acquire", 0),
                                  trace_id))
    /\ UNCHANGED <<config_vars, calls_made, trace_id, agent_context, market,
                   invoked, slept, own_trace>>

\* lines 203-209: one attempt of the tool-augmented invocation
AugAttempt(c) ==
    /\ pc[c] = "aug_try"
    /\ \E o \in RunnerOutcomes, t \in Texts :
         LET k == invoked[c].aug + 1
             e == AttemptError(o, "aug", k)
         IN /\ invoked' = [invoked EXCEPT ![c].aug = k]
            /\ IF o = "ok"
               THEN Set(c, [Cur(c) EXCEPT
                              !.result = [final_output |-> t, mode |-> "aug",
                                          k |-> k],
                              !.mcp_success = TRUE, !.pc = "release"])
               ELSE IF Hangs(o, agent_config.timeout)
               THEN Set(c, [Cur(c) EXCEPT !.pc = "hung"])
               ELSE Set(c, RetryFailed(Cur(c), e, agent_config.max_retries,
                                       "aug"))
    /\ UNCHANGED <<config_vars, calls_made, trace_id, agent_context, connected,
                   market, slept, holding, own_trace>>

\* line 282 in the augmented phase
AugSleep(c) ==
    /\ pc[c] = "aug_sleep"
    /\ slept' = [slept EXCEPT ![c] = Append(@, Backoff(retry[c]))]
    /\ Set(c, LoopNext(Cur(c), agent_config.max_retries, "aug"))
    /\ UNCHANGED <<config_vars, calls_made, trace_id, agent_context, connected,
                   market, invoked, holding, own_trace>>

\* leaving `async with self.mcp_server` (__aexit__), then lines 211-245.
\* A failing __aexit__ replaces the exception in flight; whether the session
\* was closed by it is not known.
Release(c) ==
    /\ pc[c] = "release"
    /\ \E o \in {"ok", "raise"}, still \in BOOLEAN :
         LET e == IF o = "raise" THEN RemoteError("MCPError", "release", 0)
                  ELSE pending[c]
         IN /\ connected' = IF o = "ok" THEN FALSE ELSE still
            /\ holding' = [holding EXCEPT ![c] = FALSE]
            /\ IF e = NoError
               THEN Set(c, ProcessResults(Cur(c), trace_id))
               ELSE Set(c, McpExcept(Cur(c), e, trace_id))
    /\ UNCHANGED <<config_vars, calls_made, trace_id, agent_context, market,
                   invoked, slept, own_trace>>

\* lines 227-245: one attempt of the tool-less invocation
BasicAttempt(c) ==
    /\ pc[c] = "basic_try"
    /\ \E o \in RunnerOutcomes, t \in Texts :
         LET k == invoked[c].basic + 1
             e == AttemptError(o, "basic", k)
         IN /\ invoked' = [invoked EXCEPT ![c].basic = k]
            /\ IF o = "ok"
               THEN Set(c, ProcessResults(
                              [Cur(c) EXCEPT
                                 !.result = [final_output |-> t, mode |-> "basic",
                                             k |-> k]],
                              trace_id))
               ELSE IF Hangs(o, agent_config.timeout)
               THEN Set(c, [Cur(c) EXCEPT !.pc = "hung"])
               ELSE Set(c, RetryFailed(Cur(c), e, agent_config.max_retries,
                                       "basic"))
    /\ UNCHANGED <<config_vars, calls_made, trace_id, agent_context, connected,
                   market, slept, holding, own_trace>>

\* line 282 in the tool-less phase
BasicSleep(c) ==
    /\ pc[c] = "basic_sleep"
    /\ slept' = [slept EXCEPT ![c] = Append(@, Backoff(retry[c]))]
    /\ Set(c, LoopNext(Cur(c), agent_config.max_retries, "basic"))
    /\ UNCHANGED <<config_vars, calls_made, trace_id, agent_context, connected,
                   market, invoked, holding, own_trace>>

\* ===================================================== common/retry.py
\* RetryConfig.__post_init__: the default retryable_exceptions
retryable_exceptions ==
    {"RetryableError", "asyncio.TimeoutError", "ConnectionError", "TimeoutError"}

\* the classes an exception type is an instance of (itself and its bases)
Bases(t) ==
    CASE t = "ConnectionResetError" -> {"ConnectionResetError", "ConnectionError"}
      [] t \in {"RetryableError", "NonRetryableError", "ConfigurationError",
                "MCPError", "TradingError"} -> {t, "PolymarketAgentError"}
      [] OTHER                      -> {t}

\* variant of is_retryable: only the list of exception classes is consulted
is_retryable_m(error) == Bases(error.type) \cap retryable_exceptions # {}

\* RetryConfig.is_retryable: the `retryable` attribute decides when the error
\* has one, else isinstance(error, tuple(retryable_exceptions))
is_retryable(error) ==
    IF error.retryable # "absent"
    THEN error.retryable = "True"
    ELSE Bases(error.type) \cap retryable_exceptions # {}

\* base_delay * (backoff_multiplier ** retry_count) with the multiplier in
\* hundredths, rounded down to the millisecond at every factor
RECURSIVE Power(_, _, _)
Power(base, m, n) ==
    IF n = 0 THEN base ELSE (Power(base, m, n - 1) * m) \div 100

Min(a, b) == IF a <= b THEN a ELSE b

\* random.uniform(0, 0.1), in percent
JitterDraws == {0, 5, 10}

\* variant of get_delay: the delay is returned without the cap
get_delay_m(config, retry_count, u) ==
    LET delay  == Power(config.base_delay, config.backoff_multiplier,
                        retry_count)
        jitter == (u * delay) \div 100
    IN delay + jitter

\* RetryConfig.get_delay, in milliseconds; u is the jitter draw in percent
\* and backoff_multiplier is in hundredths (2.0 is 200)
get_delay(config, retry_count, u) ==
    LET delay  == Power(config.base_delay, config.backoff_multiplier,
                        retry_count)
        jitter == (u * delay) \div 100
    IN Min(delay + jitter, config.max_delay)

\* what one invocation of func does
FuncErrors == {"RetryableError", "NonRetryableError", "ConfigurationError",
               "MCPError", "TradingError", "ConnectionError",
               "ConnectionResetError", "TimeoutError", "ValueError"}

\* errors constructed with a `retryable` argument other than their class's
\* default (MCPError and TradingError take one)
TaggedErrors == {"MCPError(retryable=False)", "TradingError(retryable=True)"}

FuncOutcomes == {"ok", "hang"} \cup FuncErrors \cup TaggedErrors

\* the class of the error an outcome raises; an invocation cut by
\* asyncio.wait_for raises asyncio.TimeoutError
ErrorType(o) ==
    CASE o = "MCPError(retryable=False)"    -> "MCPError"
      [] o = "TradingError(retryable=True)" -> "TradingError"
      [] o = "hang"                         -> "asyncio.TimeoutError"
      [] OTHER                              -> o

\* its `retryable` attribute
ErrorTag(o) ==
    CASE o = "MCPError(retryable=False)"    -> "False"
      [] o = "TradingError(retryable=True)" -> "True"
      [] o = "hang"                         -> "absent"
      [] OTHER                              -> DefaultTag(o)

RetryConfigs ==
    [max_retries : 0..MaxR, base_delay : {1000}, max_delay : {3000, 60000},
     backoff_multiplier : {105, 200}, timeout : {0, 30}]

\* execute_with_retry takes coroutine functions and plain functions,
\* execute_with_retry_sync plain functions
RetryFuncs ==
    {[entry |-> "execute_with_retry", kind |-> "coroutine"],
     [entry |-> "execute_with_retry", kind |-> "plain"],
     [entry |-> "execute_with_retry_sync", kind |-> "plain"]}

NoOutcome == [kind |-> "none"]

RetryIdle ==
    /\ rt_config = [max_retries |-> 3, base_delay |-> 1000, max_delay |-> 60000,
                    backoff_multiplier |-> 200, timeout |-> 0]
    /\ rt_func = [entry |-> "execute_with_retry", kind |-> "coroutine"]
    /\ rt_pc = "idle"
    /\ attempt = 0
    /\ rt_last_error = NoError
    /\ rt_calls = 0
    /\ rt_sleeps = <<>>
    /\ rt_draws = <<>>
    /\ rt_outcome = NoOutcome

\* lines 78-81 / 145-148: config, last_error = None, first iteration
InitRetry ==
    /\ rt_config \in RetryConfigs
    /\ rt_func \in RetryFuncs
    /\ rt_pc = "try"
    /\ attempt = 0
    /\ rt_last_error = NoError
    /\ rt_calls = 0
    /\ rt_sleeps = <<>>
    /\ rt_draws = <<>>
    /\ rt_outcome = NoOutcome

\* lines 84-93: the per-attempt timeout is applied to coroutine functions
\* only, and only by execute_with_retry
AttemptBounded == /\ rt_func.entry = "execute_with_retry"
                  /\ rt_func.kind = "coroutine"
                  /\ rt_config.timeout # 0

\* variant of RaiseAfterLoop: the last error leaves wrapped in a new error
RaiseAfterLoop_m(last) ==
    [kind |-> "raise",
     error |-> [type |-> "RuntimeError", retryable |-> "absent",
                phase |-> "retry", k |-> 0, cause |-> last]]

\* lines 117-121 / 174-178: what leaves the function once the loop has ended
RaiseAfterLoop(last) ==
    IF last # NoError
    THEN [kind |-> "raise", error |-> last]
    ELSE [kind |-> "raise",
          error |-> [type |-> "RuntimeError", retryable |-> "absent",
                     phase |-> "retry", k |-> 0]]

\* variant of ShouldBreak: the break on the attempt count is off by one
ShouldBreak_count(config, att, error) ==
    att >= config.max_retries - 1 \/ ~is_retryable(error)

\* variant of ShouldBreak: the error is not classified before retrying
ShouldBreak_noclass(config, att, error) == att >= config.max_retries

\* lines 101-107 / 157-163: the two break conditions of the except block
ShouldBreak(config, att, error) ==
    att >= config.max_retries \/ ~is_retryable(error)

\* lines 82-107 / 149-163: one attempt of the loop body up to the sleep
RtAttempt ==
    /\ rt_pc = "try"
    /\ \E o \in FuncOutcomes :
         LET k == rt_calls + 1
             e == [type |-> ErrorType(o), retryable |-> ErrorTag(o),
                   phase |-> "retry", k |-> k]
         IN /\ rt_calls' = k
            /\ IF o = "ok"
               THEN /\ rt_pc' = "returned"
                    /\ rt_outcome' = [kind |-> "return", k |-> k]
                    /\ UNCHANGED rt_last_error
               ELSE IF o = "hang" /\ ~AttemptBounded
               THEN /\ rt_pc' = "hung"
                    /\ UNCHANGED <<rt_outcome, rt_last_error>>
               ELSE /\ rt_last_error' = e
                    /\ IF ShouldBreak(rt_config, attempt, e)
                       THEN /\ rt_pc' = "raised"
                            /\ rt_outcome' = RaiseAfterLoop(e)
                       ELSE /\ rt_pc' = "sleep"
                            /\ UNCHANGED rt_outcome
    /\ UNCHANGED <<rt_config, rt_func, attempt, rt_sleeps, rt_draws, pipe_vars,
                   factory_vars, parser_vars, trade_vars>>

\* lines 110-115 / 166-172: the backoff delay, then the next iteration of
\* `for attempt in range(config.max_retries + 1)`
RtSleep ==
    /\ rt_pc = "sleep"
    /\ \E u \in JitterDraws :
         /\ rt_sleeps' = Append(rt_sleeps, get_delay(rt_config, attempt, u))
         /\ rt_draws' = Append(rt_draws, u)
    /\ attempt' = attempt + 1
    /\ IF attempt + 1 < rt_config.max_retries + 1
       THEN /\ rt_pc' = "try"
            /\ UNCHANGED rt_outcome
       ELSE /\ rt_pc' = "raised"
            /\ rt_outcome' = RaiseAfterLoop(rt_last_error)
    /\ UNCHANGED <<rt_config, rt_func, rt_last_error, rt_calls, pipe_vars,
                   factory_vars, parser_vars, trade_vars>>

NextRetry == RtAttempt \/ RtSleep

\* ============================== common/mcp_base.py, agent_factory.py
NoConfig == [name |-> "None", url |-> "None", timeout |-> 0, cache_ttl |-> 0]

MCPServerConfigs ==
    [name : {"Test MCP Server"},
     url : {"", "ftp://mcp.example", "httpx://mcp.example",
            "http://mcp.example", "https://mcp.example"},
     timeout : {-1, 0, 60}, cache_ttl : {-1, 0, 3600}]

\* MCPError(message, server_url, retryable) of common/errors.py
MCPError(server_url, tag) ==
    [type |-> "MCPError", retryable |-> IF tag THEN "True" ELSE "False",
     server_url |-> server_url]

\* ConfigurationError(message) of common/errors.py: retryable = False
ConfigurationError(why) ==
    [type |-> "ConfigurationError", retryable |-> "False", why |-> why]

\* create_server, lines 65-78: MCPServerSse(...) is called when the
\* dependency is present and the URL is not empty
ServerConstructed(config, avail) == avail /\ config.url # ""

\* str.startswith(('http://', 'https://')) on the URLs explored
StartsWithHttp(url) ==
    CASE url = "http://mcp.example"  -> TRUE
      [] url = "https://mcp.example" -> TRUE
      [] url = "ftp://mcp.example"   -> FALSE
      [] url = "httpx://mcp.example" -> FALSE
      [] OTHER                       -> FALSE

\* variant of validate_config: a timeout of 0 is accepted
validate_config_m(config) ==
    IF config.url = ""
    THEN [kind |-> "raise", error |-> MCPError("None", FALSE)]
    ELSE IF ~StartsWithHttp(config.url)
    THEN [kind |-> "raise", error |-> MCPError("None", FALSE)]
    ELSE IF config.timeout < 0
    THEN [kind |-> "raise", error |-> MCPError("None", FALSE)]
    ELSE IF config.cache_ttl < 0
    THEN [kind |-> "raise", error |-> MCPError("None", FALSE)]
    ELSE [kind |-> "return", value |-> "None"]

\* MCPServerManager.validate_config: each failed test raises
\* MCPError(message, retryable=False), without a server_url
validate_config(config) ==
    IF config.url = ""
    THEN [kind |-> "raise", error |-> MCPError("None", FALSE)]
    ELSE IF ~StartsWithHttp(config.url)
    THEN [kind |-> "raise", error |-> MCPError("None", FALSE)]
    ELSE IF config.timeout <= 0
    THEN [kind |-> "raise", error |-> MCPError("None", FALSE)]
    ELSE IF config.cache_ttl < 0
    THEN [kind |-> "raise", error |-> MCPError("None", FALSE)]
    ELSE [kind |-> "return", value |-> "None"]

\* variant of create_server: the error raised for a failed construction
\* does not carry the URL
create_server_m(config, avail, ctor) ==
    IF ~avail
    THEN [kind |-> "return", value |-> "None"]
    ELSE IF config.url = "" \/ ctor = "raise"
    THEN [kind |-> "raise", error |-> MCPError("None", TRUE)]
    ELSE [kind |-> "return", value |-> "server"]

\* MCPServerManager.create_server.  avail is the module flag MCP_AVAILABLE,
\* ctor what MCPServerSse(...) does.  The MCPError raised for a missing URL
\* is raised inside the try block, so the `except Exception` re-raises it as
\* the MCPError of line 86.
create_server(config, avail, ctor) ==
    IF ~avail
    THEN [kind |-> "return", value |-> "None"]
    ELSE IF config.url = ""
    THEN [kind |-> "raise", error |-> MCPError(config.url, TRUE)]
    ELSE IF ctor = "raise"
    THEN [kind |-> "raise", error |-> MCPError(config.url, TRUE)]
    ELSE [kind |-> "return", value |-> "server"]

\* AgentFactory.create_agent.  create_server is called outside the try
\* block (line 71); only Agent(...) is inside it (lines 82-100).
create_agent(mcp_config, env) ==
    IF ~env.settings_ok
    THEN [kind |-> "raise", error |-> ConfigurationError("settings")]
    ELSE LET made == IF mcp_config = NoConfig
                     THEN [kind |-> "return", value |-> "None"]
                     ELSE create_server(mcp_config, env.avail, env.ctor)
         IN IF made.kind = "raise"
            THEN made
            ELSE IF env.agent_ctor = "raise"
            THEN [kind |-> "raise", error |-> ConfigurationError("agent")]
            ELSE [kind |-> "return",
                  value |-> [mcp_servers |-> IF made.value = "None"
                                             THEN <<>> ELSE <<made.value>>]]

\* MCPServerManager.create_server_with_validation, lines 125-126
create_server_with_validation(config, avail, ctor) ==
    IF validate_config(config).kind = "raise"
    THEN validate_config(config)
    ELSE create_server(config, avail, ctor)

FactoryEnvs ==
    [avail : BOOLEAN, ctor : {"ok", "raise"}, agent_ctor : {"ok", "raise"},
     settings_ok : BOOLEAN]

FactoryIdle ==
    /\ f_env = [avail |-> FALSE, ctor |-> "ok", agent_ctor |-> "ok",
                settings_ok |-> TRUE]
    /\ f_config = NoConfig
    /\ f_op = "none"
    /\ f_result = NoOutcome
    /\ f_constructed = FALSE

InitFactory ==
    /\ f_env \in FactoryEnvs
    /\ f_config = NoConfig
    /\ f_op = "none"
    /\ f_result = NoOutcome
    /\ f_constructed = FALSE

CallCreateServer ==
    /\ f_op = "none"
    /\ \E config \in MCPServerConfigs :
         /\ f_config' = config
         /\ f_result' = create_server(config, f_env.avail, f_env.ctor)
         /\ f_constructed' = ServerConstructed(config, f_env.avail)
    /\ f_op' = "create_server"
    /\ UNCHANGED <<f_env, pipe_vars, retry_vars, parser_vars, trade_vars>>

CallCreateAgent ==
    /\ f_op = "none"
    /\ \E config \in MCPServerConfigs \cup {NoConfig} :
         /\ f_config' = config
         /\ f_result' = create_agent(config, f_env)
         /\ f_constructed' = (/\ f_env.settings_ok
                              /\ config # NoConfig
                              /\ ServerConstructed(config, f_env.avail))
    /\ f_op' = "create_agent"
    /\ UNCHANGED <<f_env, pipe_vars, retry_vars, parser_vars, trade_vars>>

CallValidateConfig ==
    /\ f_op = "none"
    /\ \E config \in MCPServerConfigs :
         /\ f_config' = config
         /\ f_result' = validate_config(config)
    /\ f_op' = "validate_config"
    /\ UNCHANGED <<f_env, f_constructed, pipe_vars, retry_vars, parser_vars,
                   trade_vars>>

CallCreateServerWithValidation ==
    /\ f_op = "none"
    /\ \E config \in MCPServerConfigs :
         /\ f_config' = config
         /\ f_result' = create_server_with_validation(config, f_env.avail,
                                                      f_env.ctor)
         /\ f_constructed' = (/\ validate_config(config).kind = "return"
                              /\ ServerConstructed(config, f_env.avail))
    /\ f_op' = "create_server_with_validation"
    /\ UNCHANGED <<f_env, pipe_vars, retry_vars, parser_vars, trade_vars>>

NextFactory ==
    \/ CallCreateServer
    \/ CallCreateAgent
    \/ CallValidateConfig
    \/ CallCreateServerWithValidation

\* a pipeline that is not running
PipelineIdle ==
    /\ MCP_AVAILABLE = FALSE
    /\ ex_pc = "none"
    /\ agent_config = [max_retries |-> 3, timeout |-> 120]
    /\ mcp_server = "None"
    /\ ctor_failed = FALSE
    /\ trace_id = 0
    /\ agent_context = 0
    /\ connected = FALSE
    /\ calls_made = 0
    /\ pc = [c \in Tasks |-> "idle"]
    /\ market = [c \in Tasks |-> 0]
    /\ retry = [c \in Tasks |-> 0]
    /\ last_error = [c \in Tasks |-> NoError]
    /\ mcp_success = [c \in Tasks |-> FALSE]
    /\ result = [c \in Tasks |-> NoResult]
    /\ pending = [c \in Tasks |-> NoError]
    /\ aug_error = [c \in Tasks |-> NoError]
    /\ returned = [c \in Tasks |-> NotReturned]
    /\ escaped = [c \in Tasks |-> NoError]
    /\ invoked = [c \in Tasks |-> [aug |-> 0, basic |-> 0]]
    /\ slept = [c \in Tasks |-> <<>>]
    /\ holding = [c \in Tasks |-> FALSE]
    /\ own_trace = [c \in Tasks |-> 0]

\* ================================= _parse_trading_recommendation alone
\* The texts the parser is called with: a recommendation part, a confidence
\* part and free or labelled text, in two orders.
RecParts ==
    {<<>>, <<"Recommendation:", "unclear">>}
        \cup {<<"Recommendation:", r>> : r \in {"BUY", "SELL", "HOLD"}}

ConfParts ==
    {<<>>} \cup UNION {{<<"Confidence:", n, "%">>, <<"Confidence:", n>>,
                        <<n, "%", "confidence">>,
                        <<n, "percent", "confidence">>} : n \in {"80", "150"}}

TextParts ==
    {<<>>, <<"Reasoning:", "strong", "signal">>, <<"Reasoning:", "don't", "sell">>,
     <<"strong", "buy">>, <<"don't", "buy">>, <<"sell">>}

\* texts outside that product: whitespace only, whitespace around a
\* reasoning section, keywords inside longer words, negations other than
\* "don't", both keywords at once, a label without a value next to a keyword
ExtraTexts ==
    { <<WS>>,
      <<"Reasoning:", WS, "strong", "signal", WS>>,
      <<"I", "would", "not", "buy", "this,", "confidence", "60", "%">>,
      <<"buy", "or", "sell">>,
      <<"sell", "don't", "buy">>,
      <<"don't", "sell", "don't", "buy">>,
      <<"strong", "sell", "don't", "buy">>,
      <<"many", "buyers">>,
      <<"selling", "pressure">>,
      <<"Recommendation:", "buyers">>,
      <<"Recommendation:", "unclear", "but", "I", "would", "buy">>,
      <<"Recommendation:", "none", "strong", "sell">> }

ParserInputs ==
    {r \o c \o t : r \in RecParts, c \in ConfParts, t \in TextParts}
        \cup {t \o r \o c : r \in RecParts, c \in ConfParts, t \in TextParts}
        \cup ExtraTexts
        \cup {NotAString}

ParserIdle ==
    /\ p_content = <<>>
    /\ p_pc = "idle"
    /\ p_parsed = NotReturned

InitParser ==
    /\ p_content \in ParserInputs
    /\ p_pc = "call"
    /\ p_parsed = NotReturned

\* one call of _parse_trading_recommendation(content), lines 295-356
ParseCall ==
    /\ p_pc = "call"
    /\ IF ~IsStr(p_content) /\ ~ParserCatches("AttributeError")
       THEN /\ p_pc' = "raised"
            /\ UNCHANGED p_parsed
       ELSE /\ p_parsed' = _parse_trading_recommendation(p_content, trace_id)
            /\ p_pc' = "returned"
    /\ UNCHANGED <<p_content, pipe_vars, retry_vars, factory_vars, trade_vars>>

NextParser == ParseCall

\* ================================================= application/trade.py
\* the confidence an outcome needs to be traded, in percent: the literals
\* of lines 146 and 149
BuyGate == 70
SellGate == 70

\* variant of TradeGate: the comparisons are strict
TradeGate_m(recommendation, confidence) ==
    IF recommendation = "BUY" /\ confidence > BuyGate
    THEN [should_trade |-> "True", trade_side |-> "Yes"]
    ELSE IF recommendation = "SELL" /\ confidence > SellGate
    THEN [should_trade |-> "True", trade_side |-> "No"]
    ELSE [should_trade |-> "False", trade_side |-> "unassigned"]

\* lines 145-154: the trade gate
TradeGate(recommendation, confidence) ==
    IF recommendation = "BUY" /\ confidence >= BuyGate
    THEN [should_trade |-> "True", trade_side |-> "Yes"]
    ELSE IF recommendation = "SELL" /\ confidence >= SellGate
    THEN [should_trade |-> "True", trade_side |-> "No"]
    ELSE [should_trade |-> "False", trade_side |-> "unassigned"]

\* variant of AnalysisFailed: the test looks for the parser's key
AnalysisFailed_m(analysis_result) == FALSE

\* line 131: `"error" in analysis_result`
AnalysisFailed(analysis_result) == analysis_result.error # NoErrorKey

TradeIdle ==
    /\ min_confidence_threshold = 60
    /\ t_pc = "idle"
    /\ should_trade = "unassigned"
    /\ trade_side = "unassigned"
    /\ t_exit = "none"

\* Trader.__init__, lines 13-38: the executor is built with
\* AgentConfig(timeout=180, max_retries=3); the Settings in force carry a
\* min_confidence_threshold between 0 and 1
InitTrader ==
    /\ min_confidence_threshold \in {60, 80}
    /\ t_pc = "idle"
    /\ should_trade = "unassigned"
    /\ trade_side = "unassigned"
    /\ t_exit = "none"
    /\ MCP_AVAILABLE \in BOOLEAN
    /\ ex_pc = "new"
    /\ agent_config = [max_retries |-> 3, timeout |-> 180]
    /\ mcp_server = "None"
    /\ ctor_failed = FALSE
    /\ trace_id = 0
    /\ agent_context = 0
    /\ connected = FALSE
    /\ calls_made = 0
    /\ pc = [c \in Tasks |-> "idle"]
    /\ market = [c \in Tasks |-> 0]
    /\ retry = [c \in Tasks |-> 0]
    /\ last_error = [c \in Tasks |-> NoError]
    /\ mcp_success = [c \in Tasks |-> FALSE]
    /\ result = [c \in Tasks |-> NoResult]
    /\ pending = [c \in Tasks |-> NoError]
    /\ aug_error = [c \in Tasks |-> NoError]
    /\ returned = [c \in Tasks |-> NotReturned]
    /\ escaped = [c \in Tasks |-> NoError]
    /\ invoked = [c \in Tasks |-> [aug |-> 0, basic |-> 0]]
    /\ slept = [c \in Tasks |-> <<>>]
    /\ holding = [c \in Tasks |-> FALSE]
    /\ own_trace = [c \in Tasks |-> 0]

\* one_best_trade, lines 89-127: the endpoint check, the market fetch and
\* the choice of a market.  An exception of the fetch is caught at line 181.
BeginTrade ==
    /\ t_pc = "idle"
    /\ ex_pc = "ready"
    /\ \E env \in {"unconfigured", "fetch_raises", "no_markets", "ok"} :
         IF env = "ok"
         THEN /\ t_pc' = "analysis"
              /\ UNCHANGED t_exit
         ELSE /\ t_pc' = "returned"
              /\ t_exit' = IF env = "fetch_raises" THEN "halted" ELSE env
    /\ UNCHANGED <<min_confidence_threshold, should_trade, trade_side,
                   pipe_vars, retry_vars, factory_vars, parser_vars>>

\* line 129 and _enhanced_trade_analysis, lines 55-62: the analysis call
TraderAnalysis ==
    /\ t_pc = "analysis"
    /\ pc[Main] = "idle"
    /\ Start(Main)

\* one_best_trade, lines 129-185, once the analysis has ended: a failure
\* outcome ends the run, any other outcome goes through the gate; an
\* exception of the analysis is re-raised at line 75 and caught at line 181
DecideTrade ==
    /\ t_pc = "analysis"
    /\ pc[Main] \in {"done", "raised"}
    /\ t_pc' = "returned"
    /\ IF pc[Main] = "raised"
       THEN /\ t_exit' = "halted"
            /\ UNCHANGED <<should_trade, trade_side>>
       ELSE IF AnalysisFailed(returned[Main])
       THEN /\ t_exit' = "analysis_failed"
            /\ UNCHANGED <<should_trade, trade_side>>
       ELSE LET analysis_result == returned[Main]
                gate == TradeGate(analysis_result.recommendation,
                                  analysis_result.confidence)
            IN /\ should_trade' = gate.should_trade
               /\ trade_side' = gate.trade_side
               /\ t_exit' = "completed"
    /\ UNCHANGED <<min_confidence_threshold, pipe_vars, retry_vars,
                   factory_vars, parser_vars>>

NextTrader ==
    \/ Construct
    \/ BeginTrade
    \/ TraderAnalysis
    \/ Acquire(Main)
    \/ AugAttempt(Main)
    \/ AugSleep(Main)
    \/ Release(Main)
    \/ BasicAttempt(Main)
    \/ BasicSleep(Main)
    \/ DecideTrade

\* ====================================================== specifications
\* the analysis pipeline: one executor, calls made one after the other
Next ==
    \/ Construct
    \/ Start(Main)
    \/ Acquire(Main)
    \/ AugAttempt(Main)
    \/ AugSleep(Main)
    \/ Release(Main)
    \/ BasicAttempt(Main)
    \/ BasicSleep(Main)

\* What the model-invocation service does while two analyses are in
\* flight: it answers with one of two texts or fails with a transport error
ConcurrentTexts ==
    { <<"Recommendation:", "BUY", "Confidence:", "80", "%",
        "Reasoning:", "strong", "signal">>,
      <<"markets", "look", "flat">> }

ConcurrentAnswer(c) ==
    /\ result[c].final_output \in ConcurrentTexts \cup {<<>>}
    /\ last_error[c].type \in {"None", "ConnectionError"}

\* the same executor with two analyses in flight at once: the coroutines
\* of the two tasks interleave at their await points
NextConcurrent ==
    \/ Construct
    \/ \E c \in Tasks : Start(c)
    \/ \E c \in Tasks : Acquire(c)
    \/ \E c \in Tasks : AugAttempt(c) /\ ConcurrentAnswer(c)'
    \/ \E c \in Tasks : AugSleep(c)
    \/ \E c \in Tasks : Release(c)
    \/ \E c \in Tasks : BasicAttempt(c) /\ ConcurrentAnswer(c)'
    \/ \E c \in Tasks : BasicSleep(c)

Init == InitPipeline /\ RetryIdle /\ FactoryIdle /\ ParserIdle /\ TradeIdle

Spec == Init /\ [][Next]_vars

\* an executor whose AgentConfig sets the per-attempt timeout
InitLive == InitPipeline /\ agent_config.timeout # 0

InitLiveSpec ==
    InitLive /\ RetryIdle /\ FactoryIdle /\ ParserIdle /\ TradeIdle

\* the event loop runs a coroutine that can take a step: an awaited
\* invocation, sleep, __aenter__ or __aexit__ completes
SpecLive == InitLiveSpec /\ [][Next]_vars /\ WF_vars(Next)

\* two tasks share one executor whose AgentConfig allows two attempts per
\* phase, each under a timeout
InitConcurrent ==
    /\ InitPipeline
    /\ MCP_AVAILABLE
    /\ agent_config = [max_retries |-> 2, timeout |-> 120]

InitConcurrentSpec ==
    InitConcurrent /\ RetryIdle /\ FactoryIdle /\ ParserIdle /\ TradeIdle

SpecConcurrent == InitConcurrentSpec /\ [][NextConcurrent]_vars

\* one call of the shared retry executor
InitRetrySpec ==
    InitRetry /\ PipelineIdle /\ FactoryIdle /\ ParserIdle /\ TradeIdle

SpecRetry == InitRetrySpec /\ [][NextRetry]_vars

\* a program that runs one retried operation: a call of the shared retry
\* executor, or analyses through the pipeline's own retry wrapper
NextRetried == NextRetry \/ Next

InitRetriedSpec == InitRetrySpec \/ Init

SpecRetried == InitRetriedSpec /\ [][NextRetried]_vars

\* one call of create_server or create_agent
InitFactorySpec ==
    InitFactory /\ PipelineIdle /\ RetryIdle /\ ParserIdle /\ TradeIdle

SpecFactory == InitFactorySpec /\ [][NextFactory]_vars

\* one call of the recommendation parser
InitParserSpec ==
    InitParser /\ PipelineIdle /\ RetryIdle /\ FactoryIdle /\ TradeIdle

SpecParser == InitParserSpec /\ [][NextParser]_vars

\* one run of Trader.one_best_trade
InitTraderSpec == InitTrader /\ RetryIdle /\ FactoryIdle /\ ParserIdle

SpecTrader == InitTraderSpec /\ [][NextTrader]_vars

\* ================================================================ claims
Recommendations == {"BUY", "SELL", "HOLD"}

\* C1: enhanced_market_analysis is total - whatever the tool server and the
\* model invocations do, no error leaves the call; a call that has ended has
\* ended by returning an outcome.
C1_AnalysisNeverRaises ==
    \A c \in Tasks :
        /\ pc[c] # "raised"
        /\ escaped[c] = NoError
        /\ pc[c] = "done" =>
             /\ returned[c] # NotReturned
             /\ returned[c].recommendation \in Recommendations

\* a call that met a release failure of the tool server and then model
\* failures in the tool-less phase has returned
C1_Witness ==
    /\ pc[Main] = "done"
    /\ aug_error[Main].type = "MCPError"
    /\ aug_error[Main].phase = "release"
    /\ last_error[Main].type = "TimeoutError"
    /\ returned[Main].error # NoErrorKey

\* C2: when every model invocation of the call failed or timed out, the
\* outcome returned is HOLD with confidence 0.0, a reasoning string and a
\* non-empty trace reference.
C2_FailureOutcomeIsHold ==
    \A c \in Tasks :
        (pc[c] = "done" /\ result[c] = NoResult) =>
            /\ returned[c].recommendation = "HOLD"
            /\ returned[c].confidence = 0
            /\ returned[c].reasoning # <<>>
            /\ returned[c].error # NoErrorKey
            /\ returned[c].trace_url # NoTraceUrl
            /\ returned[c].trace_url.trace_id # 0

\* every invocation of both phases timed out
C2_Witness ==
    /\ pc[Main] = "done"
    /\ result[Main] = NoResult
    /\ invoked[Main].aug = agent_config.max_retries
    /\ invoked[Main].basic = agent_config.max_retries
    /\ last_error[Main].type = "TimeoutError"
    /\ aug_error[Main].type = "Exception"
    /\ aug_error[Main].cause.type = "TimeoutError"

\* the call ran with a tool server and its augmented phase did not succeed
AugmentedPhaseFailed(c) == mcp_server # "None" /\ ~mcp_success[c]

\* C3: a failure of the tool-augmented phase is swallowed: the call goes on
\* to a tool-less invocation, and an error the caller is told about comes
\* from the tool-less phase, never from the augmented one.
C3_AugmentedFailureFallsBack ==
    \A c \in Tasks :
        (pc[c] \in {"done", "raised"} /\ AugmentedPhaseFailed(c)) =>
            /\ escaped[c] = NoError
            /\ invoked[c].basic >= 1
            /\ returned[c].error # NoErrorKey =>
                 /\ returned[c].error.type = "Exception"
                 /\ returned[c].error.cause.phase = "basic"

\* the augmented phase exhausted its attempts, the tool-less phase failed too
C3_Witness ==
    /\ pc[Main] = "done"
    /\ aug_error[Main].type = "Exception"
    /\ aug_error[Main].cause.phase = "aug"
    /\ invoked[Main].basic >= 1
    /\ returned[Main].error # NoErrorKey

\* the executor holds no tool server
NoToolServer == ctor_failed \/ ~MCP_AVAILABLE

\* C4: a tool server whose construction fails is an absent tool server:
\* __init__ does not raise, the augmented phase is never entered, and a
\* successful tool-less invocation gives an outcome of mode basic_ai_no_mcp
\* without an error.
C4_ConstructionFailureIsAbsence ==
    /\ ex_pc # "raised"
    /\ (ex_pc = "ready" /\ NoToolServer) =>
          /\ mcp_server = "None"
          /\ \A c \in Tasks :
               /\ pc[c] \notin {"acquire", "aug_try", "aug_sleep", "release"}
               /\ invoked[c].aug = 0
               /\ (pc[c] = "done" /\ result[c] # NoResult) =>
                    /\ returned[c].error = NoErrorKey
                    /\ returned[c].analysis_type = "basic_ai_no_mcp"
                    /\ returned[c].recommendation \in Recommendations

\* the constructor of the tool server raised and an analysis succeeded
C4_Witness ==
    /\ MCP_AVAILABLE
    /\ ctor_failed
    /\ pc[Main] = "done"
    /\ result[Main].mode = "basic"
    /\ returned[Main].error = NoErrorKey

\* C5: create_agent with a (well-formed) MCP config whose server
\* construction fails returns an agent without tool servers, as it does
\* without a tool server; the only error it raises is ConfigurationError.
C5_CreateAgentDegrades ==
    (/\ f_op = "create_agent"
     /\ f_config # NoConfig
     /\ f_config.url = "https://mcp.example"
     /\ f_config.timeout > 0 /\ f_config.cache_ttl >= 0
     /\ f_env.avail /\ f_env.ctor = "raise") =>
        IF f_result.kind = "raise"
        THEN f_result.error.type = "ConfigurationError"
        ELSE f_result.value.mcp_servers = <<>>

\* C6: _execute_with_retry invokes a permanently failing operation exactly
\* max_retries times; the terminal error states that count and wraps the
\* error of the last invocation.
C6_PipelineRetryExhaustion ==
    LET n == agent_config.max_retries
        Terminal(e, c, ph, count) ==
            /\ e.type = "Exception"
            /\ e.attempts = n
            /\ e.cause = last_error[c]
            /\ e.cause.phase = ph
            /\ e.cause.k = n
            /\ count = n
    IN \A c \in Tasks :
        /\ invoked[c].aug <= n /\ invoked[c].basic <= n
        /\ pc[c] = "aug_sleep" => invoked[c].aug < n
        /\ pc[c] = "basic_sleep" => invoked[c].basic < n
        /\ (pc[c] = "release" /\ pending[c] # NoError) =>
              Terminal(pending[c], c, "aug", invoked[c].aug)
        /\ (pc[c] = "done" /\ returned[c].error # NoErrorKey) =>
              Terminal(returned[c].error, c, "basic", invoked[c].basic)

\* the tool-less phase has failed max_retries >= 2 times and the call has
\* returned the terminal error
C6_Witness ==
    /\ agent_config.max_retries >= 2
    /\ pc[Main] = "done"
    /\ returned[Main].error # NoErrorKey
    /\ invoked[Main].basic = agent_config.max_retries

\* C7: with RetryConfig.max_retries = R the shared executors invoke a
\* permanently failing retryable operation exactly R + 1 times and then
\* raise the last exception.  (The loop ends at the first non-retryable
\* error, so a raise with a retryable last error is the permanent failure.)
C7_SharedRetryAttempts ==
    /\ rt_calls <= rt_config.max_retries + 1
    /\ rt_pc = "sleep" => rt_calls <= rt_config.max_retries
    /\ (rt_pc = "raised" /\ is_retryable(rt_last_error)) =>
          /\ rt_calls = rt_config.max_retries + 1
          /\ rt_last_error.k = rt_config.max_retries + 1
          /\ rt_outcome = [kind |-> "raise", error |-> rt_last_error]

\* execute_with_retry_sync has raised after three retryable failures
C7_Witness ==
    /\ rt_func.entry = "execute_with_retry_sync"
    /\ rt_config.max_retries = 2
    /\ rt_pc = "raised"
    /\ is_retryable(rt_last_error)
    /\ rt_calls = 3

\* the shared executor has used up all its attempts
RetryExhausted == rt_pc = "raised" /\ rt_calls = rt_config.max_retries + 1

C9_NonRetryableAbortsAtOnce ==
    (rt_last_error.k = 1 /\ ~is_retryable(rt_last_error)) =>
        /\ rt_pc = "raised"
        /\ rt_calls = 1
        /\ rt_sleeps = <<>>
        /\ rt_outcome = [kind |-> "raise", error |-> rt_last_error]

\* a ConfigurationError on the first of up to four attempts
C9_Witness ==
    /\ rt_config.max_retries = 3
    /\ rt_last_error.type = "ConfigurationError"
    /\ rt_calls = 1
    /\ rt_pc = "raised"

\* C10: inside the pipeline a model invocation that failed with a
\* non-retryable error is not attempted again in that phase:
\* _execute_with_retry never goes to its backoff sleep after such an error.
C10_PipelineStopsOnNonRetryable ==
    \A c \in Tasks :
        pc[c] \in {"aug_sleep", "basic_sleep"} => is_retryable(last_error[c])

\* the upper end of random.uniform(0, 0.1), in percent
JitterFraction == 10

C12_TimeoutBoundsEveryAttempt ==
    /\ rt_config.timeout # 0 =>
          /\ rt_pc # "hung"
          /\ (rt_pc = "raised" /\ rt_last_error.type = "asyncio.TimeoutError") =>
                rt_calls = rt_config.max_retries + 1
    /\ agent_config.timeout # 0 =>
          \A c \in Tasks : pc[c] # "hung"

\* C13: the default is_retryable takes RetryableError, asyncio.TimeoutError,
\* TimeoutError, ConnectionError and every error tagged retryable = True as
\* retryable, and ConfigurationError, NonRetryableError and every error
\* tagged retryable = False as not retryable; a tag decides whatever the
\* type.  Stated of the error of the last attempt and of what the executor
\* did with it: it sleeps only after a retryable error, and gives up with
\* attempts left only after a non-retryable one.
C13_DefaultClassification ==
    LET e == rt_last_error
        Transient == {"RetryableError", "asyncio.TimeoutError", "TimeoutError",
                      "ConnectionError"}
        Permanent == {"ConfigurationError", "NonRetryableError"}
        Retryable == \/ e.retryable = "True"
                     \/ e.retryable = "absent" /\ Bases(e.type) \cap Transient # {}
    IN e # NoError =>
        /\ e.type \in Transient => is_retryable(e)
        /\ e.type \in Permanent => ~is_retryable(e)
        /\ e.retryable = "True" => is_retryable(e)
        /\ e.retryable = "False" => ~is_retryable(e)
        /\ rt_pc = "sleep" => Retryable
        /\ (rt_pc = "raised" /\ rt_calls <= rt_config.max_retries) => ~Retryable

\* an MCPError, retryable by default, constructed with retryable = False
\* ended the call at its first attempt
C13_Witness ==
    /\ rt_last_error.type = "MCPError"
    /\ rt_last_error.retryable = "False"
    /\ rt_config.max_retries >= 1
    /\ rt_calls = 1
    /\ rt_pc = "raised"

\* one_best_trade has put an outcome through its gate
GateDecided == t_pc = "returned" /\ t_exit = "completed"

\* C14: the gate of one_best_trade trades YES exactly for BUY with a
\* confidence of at least the buy threshold, trades NO exactly for SELL with
\* a confidence of at least the sell threshold, and otherwise does not trade
\* and names no side; (BUY, 0.75) trades YES at 0.7, (BUY, 0.5) and
\* (HOLD, 0.99) do not trade.
C14_TradeGateDecision ==
    LET o    == returned[Main]
        yes  == should_trade = "True" /\ trade_side = "Yes"
        no   == should_trade = "True" /\ trade_side = "No"
        none == should_trade # "True" /\ trade_side = "unassigned"
    IN /\ GateDecided =>
            /\ yes <=> (o.recommendation = "BUY" /\ o.confidence >= 70)
            /\ no <=> (o.recommendation = "SELL" /\ o.confidence >= 70)
            /\ (~yes /\ ~no) => (should_trade = "False" /\ none)
            /\ (o.recommendation = "BUY" /\ o.confidence = 75) => yes
            /\ (o.recommendation = "BUY" /\ o.confidence = 50) => none
            /\ (o.recommendation = "HOLD" /\ o.confidence = 99) => none
       /\ ~GateDecided => none

\* SELL at exactly 0.7 went through the gate and trades NO
C14_Witness ==
    /\ GateDecided
    /\ returned[Main].recommendation = "SELL"
    /\ returned[Main].confidence = 70
    /\ should_trade = "True"
    /\ trade_side = "No"

\* C15: the thresholds of the gate are configuration: an outcome trades
\* exactly when its recommendation is BUY or SELL and its confidence reaches
\* Settings.min_confidence_threshold.
C15_GateFollowsConfiguredThreshold ==
    GateDecided =>
        (should_trade = "True" <=>
            /\ returned[Main].recommendation \in {"BUY", "SELL"}
            /\ returned[Main].confidence >= min_confidence_threshold)

\* the analysis of the run ended without a usable outcome
AnalysisFailedOrRaised ==
    \/ pc[Main] = "raised"
    \/ pc[Main] = "done" /\ returned[Main].error # NoErrorKey

\* C16: a failed analysis produces no trade and no exception at the trading
\* layer: when enhanced_market_analysis returned its failure outcome (or
\* raised), one_best_trade returns normally, halted, without a trade.
C16_FailedAnalysisNeverTrades ==
    /\ t_pc \in {"idle", "analysis", "returned"}
    /\ (t_pc = "returned" /\ AnalysisFailedOrRaised) =>
          /\ should_trade # "True"
          /\ trade_side = "unassigned"
          /\ t_exit \in {"analysis_failed", "halted"}

\* both phases of the analysis failed and one_best_trade has returned
C16_Witness ==
    /\ t_pc = "returned"
    /\ pc[Main] = "done"
    /\ returned[Main].error # NoErrorKey
    /\ returned[Main].recommendation = "HOLD"
    /\ aug_error[Main] # NoError
    /\ t_exit = "analysis_failed"

\* C17: one_best_trade decides on tool-augmented analyses only: it never
\* has should_trade = true for an outcome produced in tool-less mode.
C17_TradesOnlyOnAugmentedOutcome ==
    should_trade = "True" => returned[Main].analysis_type = "enhanced_ai_mcp"

Labels == {"recommendation:", "confidence:", "reasoning:"}

\* text of the canonical form: the three labelled lines, in the order of the
\* format the agent is told to use, the reasoning text holding no label
Canonical(content) ==
    /\ Len(content) >= 7
    /\ content[1] = "Recommendation:" /\ content[2] \in Recommendations
    /\ content[3] = "Confidence:" /\ content[4] \in NumTokens
    /\ content[5] = "%"
    /\ content[6] = "Reasoning:"
    /\ \A i \in 7..Len(content) : Lower(content[i]) \notin Labels

\* C18: canonical text - the lines 'Recommendation: <BUY|SELL|HOLD>',
\* 'Confidence: NN%', 'Reasoning: <text>' - parses to exactly that
\* recommendation, the confidence NN/100 and the reasoning text; the
\* example parses to BUY, 0.80, 'strong signal'.
C18_CanonicalInputParsesToItsFields ==
    (p_pc = "returned" /\ Canonical(p_content)) =>
        /\ p_parsed.recommendation = p_content[2]
        /\ p_parsed.confidence = NumVal(p_content[4])
        /\ p_parsed.reasoning = SubSeq(p_content, 7, Len(p_content))
        /\ p_parsed.full_analysis = p_content
        /\ p_content = <<"Recommendation:", "BUY", "Confidence:", "80", "%",
                         "Reasoning:", "strong", "signal">> =>
              /\ p_parsed.recommendation = "BUY"
              /\ p_parsed.confidence = 80
              /\ p_parsed.reasoning = <<"strong", "signal">>

\* the example text has been parsed
C18_Witness ==
    /\ p_pc = "returned"
    /\ p_content = <<"Recommendation:", "BUY", "Confidence:", "80", "%",
                     "Reasoning:", "strong", "signal">>
    /\ p_parsed.reasoning = <<"strong", "signal">>

\* C19: a valid label wins over the keyword heuristics: when the text holds
\* 'recommendation:' followed by buy, sell or hold, the parsed
\* recommendation is the (first) labelled value, whatever bare keywords
\* occur elsewhere in the text.
C19_LabelWinsOverKeywords ==
    p_pc = "returned" =>
        \A i \in DOMAIN p_content :
            (/\ i + 1 \in DOMAIN p_content
             /\ Lower(p_content[i]) = "recommendation:"
             /\ Lower(p_content[i + 1]) \in {"buy", "sell", "hold"}
             /\ \A j \in 1..(i - 1) :
                   ~(/\ Lower(p_content[j]) = "recommendation:"
                     /\ Lower(p_content[j + 1]) \in {"buy", "sell", "hold"}))
            => p_parsed.recommendation = Upper(Lower(p_content[i + 1]))

\* 'strong buy ... Recommendation: SELL' has been parsed to SELL
C19_Witness ==
    /\ p_pc = "returned"
    /\ Len(p_content) >= 4
    /\ p_content[1] = "strong" /\ p_content[2] = "buy"
    /\ p_content[3] = "Recommendation:" /\ p_content[4] = "SELL"
    /\ p_parsed.recommendation = "SELL"

\* C20: every outcome the pipeline builds has a confidence within [0, 1]
\* (0 to 100 percent), also for texts that state more than 100 percent.
C20_ConfidenceWithinUnitInterval ==
    \A c \in Tasks :
        pc[c] = "done" =>
            (returned[c].confidence >= 0 /\ returned[c].confidence <= 100)

\* the parser recognises neither a recommendation nor a confidence in the
\* text
Ambiguous(content) ==
    LET cl == content_lower(content)
    IN /\ IsStr(content)
       /\ RecMatches(cl) = {}
       /\ ~Has(cl, "buy") /\ ~Has(cl, "sell")
       /\ \A i \in DOMAIN cl : cl[i] \notin NumTokens

InvalidConfig(config) ==
    \/ config.url \in {"", "ftp://mcp.example", "httpx://mcp.example"}
    \/ config.timeout <= 0
    \/ config.cache_ttl < 0

C23_ConstructionFailureIsRetryableWithUrl ==
    (/\ f_op = "create_server"
     /\ f_env.avail
     /\ f_constructed
     /\ f_env.ctor = "raise") =>
        /\ f_result.kind = "raise"
        /\ f_result.error.type = "MCPError"
        /\ f_result.error.retryable = "True"
        /\ f_result.error.server_url = f_config.url

\* MCPServerSse raised for an http URL
C23_Witness ==
    /\ f_op = "create_server"
    /\ f_env.avail
    /\ f_env.ctor = "raise"
    /\ f_config.url = "http://mcp.example"
    /\ f_result.kind = "raise"

\* C24: an invalid config never reaches the server constructor, whichever
\* function is asked to build the server.
C24_InvalidConfigNeverConstructed ==
    f_constructed => ~InvalidConfig(f_config)

\* positions of a call inside its tool-less phase
ToolLessPcs == {"basic_try", "basic_sleep"}

\* positions of a call that has started and has not ended
InFlightPcs ==
    {"acquire", "aug_try", "aug_sleep", "release", "basic_try", "basic_sleep",
     "hung"}

\* C25: the tool-server handle is released on every exit path - a call that
\* has returned, or that is in its tool-less phase, is no longer inside the
\* async-with block of the tool server.
C25_HandleReleasedOnEveryExit ==
    \A c \in Tasks :
        (pc[c] \in {"done", "raised"} \cup ToolLessPcs) => ~holding[c]

\* a call whose augmented phase used up its attempts inside the block is in
\* its tool-less phase
C25_Witness ==
    /\ pc[Main] = "basic_try"
    /\ invoked[Main].aug = agent_config.max_retries
    /\ aug_error[Main].type = "Exception"
    /\ ~holding[Main]

\* C26: no handle is shared across concurrent analyses - at most one call
\* in flight is inside the async-with block, and a call inside the block
\* still has its session open.
C26_HandleNotShared ==
    /\ Cardinality({c \in Tasks : holding[c]}) <= 1
    /\ \A c \in Tasks : holding[c] => connected

\* C27: no per-call data survives the call - once a call has returned, the
\* executor's context and trace id are what they were before the first call.
C27_NoStateSurvivesCall ==
    pc[Main] = "done" => (agent_context = 0 /\ trace_id = 0)

\* C28: the trace reference of an outcome is the one generated by the call
\* that returned it.
C28_TraceBelongsToCall ==
    \A c \in Tasks :
        pc[c] = "done" => returned[c].trace_url = get_trace_url(own_trace[c])

\* C29: the context handed to the model invocations of a call is the
\* snapshot of that call's market for as long as the call is in flight.
C29_ContextIsSnapshot ==
    \A c \in Tasks :
        pc[c] \in InFlightPcs => agent_context = market[c]

\* C30: every outcome, the failure outcome included, carries a trace
\* reference and a mode flag.
C30_OutcomeCarriesTraceAndMode ==
    pc[Main] = "done" =>
        /\ returned[Main].trace_url # NoTraceUrl
        /\ "analysis_type" \in DOMAIN returned[Main]
        /\ returned[Main].analysis_type \in {"enhanced_ai_mcp", "basic_ai_no_mcp"}

\* a call that returned an outcome parsed from a model text
Succeeded(c) == pc[c] = "done" /\ returned[c].error = NoErrorKey

\* positions of a call inside its tool-augmented phase
AugmentedPcs == {"acquire", "aug_try", "aug_sleep", "release"}

\* C31: the mode of a successful outcome names the path that produced the
\* parsed text - enhanced_ai_mcp iff the text came from the tool-augmented
\* invocation, basic_ai_no_mcp iff it came from the tool-less one.
C31_ModeNamesProducingPath ==
    \A c \in Tasks :
        Succeeded(c) =>
            /\ returned[c].full_analysis = result[c].final_output
            /\ returned[c].analysis_type = "enhanced_ai_mcp"
                  <=> result[c].mode = "aug"
            /\ returned[c].analysis_type = "basic_ai_no_mcp"
                  <=> result[c].mode = "basic"

\* the augmented invocation answered, the release failed, and the outcome
\* was parsed from the answer of the tool-less invocation
C31_Witness ==
    /\ Succeeded(Main)
    /\ aug_error[Main].type = "MCPError"
    /\ aug_error[Main].phase = "release"
    /\ invoked[Main].aug >= 1
    /\ result[Main].mode = "basic"
    /\ returned[Main].analysis_type = "basic_ai_no_mcp"

\* C32: the steps of a call are never reordered - the augmented phase is
\* entered only with a tool server, no augmented invocation follows a
\* tool-less one, and an outcome is parsed only from a result obtained.
C32_StepsInOrder ==
    \A c \in Tasks :
        /\ (pc[c] \in AugmentedPcs \/ invoked[c].aug > 0) =>
              mcp_server # "None"
        /\ pc[c] \in AugmentedPcs => invoked[c].basic = 0
        /\ Succeeded(c) =>
              /\ result[c] # NoResult
              /\ invoked[c].aug + invoked[c].basic >= 1

\* a call that went through both phases in order and parsed the answer of
\* its second tool-less invocation
C32_Witness ==
    /\ Succeeded(Main)
    /\ invoked[Main].aug >= 1
    /\ invoked[Main].basic = 2
    /\ result[Main].mode = "basic"

\* C33: create_server called with an empty URL surfaces an error tagged
\* retryable = False, which the default predicate of the retry executor
\* does not retry.
C33_MissingUrlIsNotRetryable ==
    (f_op = "create_server" /\ f_env.avail /\ f_config.url = "") =>
        /\ f_result.kind = "raise"
        /\ f_result.error.retryable = "False"
        /\ ~is_retryable(f_result.error)

\* the lower-cased words that hold the keyword w as a substring
WordsHolding(w) ==
    CASE w = "buy"  -> {"buy", "buyers"}
      [] w = "sell" -> {"sell", "selling"}
      [] OTHER      -> {w}

\* the text holds the keyword w
Mentions(content, w) ==
    \E i \in DOMAIN content : Lower(content[i]) \in WordsHolding(w)

\* the text holds the phrase 'a w'
MentionsPhrase(content, a, w) ==
    \E i \in DOMAIN content :
        /\ i + 1 \in DOMAIN content
        /\ Lower(content[i]) = a
        /\ Lower(content[i + 1]) \in WordsHolding(w)

\* the keyword heuristics in their stated precedence
KeywordRule(content) ==
    IF \/ MentionsPhrase(content, "strong", "buy")
       \/ (Mentions(content, "buy") /\ ~MentionsPhrase(content, "don't", "buy"))
    THEN "BUY"
    ELSE IF \/ MentionsPhrase(content, "strong", "sell")
            \/ (/\ Mentions(content, "sell")
                /\ ~MentionsPhrase(content, "don't", "sell"))
         THEN "SELL"
         ELSE "HOLD"

HasLabel(content) ==
    \E i \in DOMAIN content : Lower(content[i]) = "recommendation:"

HasLabelledValue(content) ==
    \E i \in DOMAIN content :
        /\ i + 1 \in DOMAIN content
        /\ Lower(content[i]) = "recommendation:"
        /\ \E w \in {"buy", "sell", "hold"} :
              Lower(content[i + 1]) \in WordsHolding(w)

\* C34: a text with the label 'recommendation:' that is not followed by
\* buy, sell or hold is parsed by the keyword heuristics, so such a text
\* with the bare word 'buy' yields BUY.
C34_LabelWithoutValueFallsBack ==
    (/\ p_pc = "returned"
     /\ IsStr(p_content)
     /\ HasLabel(p_content)
     /\ ~HasLabelledValue(p_content)) =>
        p_parsed.recommendation = KeywordRule(p_content)

C36_BlankInputGivesEmptyReasoning ==
    (/\ p_pc = "returned"
     /\ IsStr(p_content)
     /\ \A i \in DOMAIN p_content : p_content[i] = WS) =>
        /\ p_parsed.recommendation = "HOLD"
        /\ p_parsed.confidence = 50
        /\ p_parsed.reasoning = <<>>

\* number of delays of the augmented phase of a call that is past it
AugDelays(c) == IF invoked[c].aug = 0 THEN 0 ELSE invoked[c].aug - 1

\* C37: the pipeline's retry wrapper suspends for 2^(k-1) time units after
\* the k-th failed attempt of a phase when that attempt is not the last one
\* allowed, and does not wait after the last failed attempt or after a
\* successful one.
C37_BackoffDoublesFromOne ==
    \A c \in Tasks :
        /\ pc[c] = "aug_try" => Len(slept[c]) = invoked[c].aug
        /\ pc[c] \in {"aug_sleep", "release"} =>
              Len(slept[c]) = invoked[c].aug - 1
        /\ pc[c] \in {"aug_try", "aug_sleep", "release"} =>
              \A k \in DOMAIN slept[c] : slept[c][k] = 2 ^ (k - 1)
        /\ pc[c] = "basic_try" =>
              Len(slept[c]) = AugDelays(c) + invoked[c].basic
        /\ pc[c] = "basic_sleep" =>
              Len(slept[c]) = AugDelays(c) + invoked[c].basic - 1
        /\ pc[c] = "done" =>
              Len(slept[c]) = AugDelays(c)
                  + (IF invoked[c].basic = 0 THEN 0 ELSE invoked[c].basic - 1)
        /\ pc[c] \in {"basic_try", "basic_sleep", "done"} =>
              \A k \in DOMAIN slept[c] :
                  slept[c][k] = IF k <= AugDelays(c)
                                THEN 2 ^ (k - 1)
                                ELSE 2 ^ (k - AugDelays(c) - 1)

\* a call whose tool-less phase failed three times has waited 1 and then 2
\* time units and has returned without a third wait
C37_Witness ==
    /\ pc[Main] = "done"
    /\ invoked[Main] = [aug |-> 0, basic |-> 3]
    /\ returned[Main].error # NoErrorKey
    /\ slept[Main] = <<1, 2>>

\* C38: a result obtained in the tool-augmented phase is the one used - once
\* the augmented invocation has answered, the call makes no tool-less
\* invocation and returns the outcome parsed from that answer, tagged
\* enhanced_ai_mcp, whatever the release of the tool server does.
C38_AugmentedResultIsUsed ==
    \A c \in Tasks :
        result[c].mode = "aug" =>
            /\ pc[c] \notin ToolLessPcs
            /\ invoked[c].basic = 0
            /\ pc[c] = "done" =>
                  /\ Succeeded(c)
                  /\ returned[c].full_analysis = result[c].final_output
                  /\ returned[c].analysis_type = "enhanced_ai_mcp"

C40_StopsAtFirstSuccess ==
    /\ rt_pc = "returned" =>
          /\ rt_outcome = [kind |-> "return", k |-> rt_calls]
          /\ Len(rt_sleeps) = rt_calls - 1
    /\ \A c \in Tasks :
          /\ (pc[c] = "release" /\ result[c].mode = "aug") =>
                /\ result[c].k = invoked[c].aug
                /\ Len(slept[c]) = result[c].k - 1
                /\ pending[c] = NoError
                /\ escaped[c] = NoError
          /\ (pc[c] = "done" /\ result[c].mode = "basic") =>
                /\ result[c].k = invoked[c].basic
                /\ Len(slept[c]) = AugDelays(c) + result[c].k - 1
                /\ returned[c].error = NoErrorKey
                /\ returned[c].full_analysis = result[c].final_output
                /\ escaped[c] = NoError

\* the third attempt of the shared executor, or of the pipeline's wrapper
\* in the tool-less phase, was the first to succeed
C40_Witness ==
    \/ /\ rt_pc = "returned"
       /\ rt_calls = 3
       /\ rt_last_error # NoError
    \/ /\ pc[Main] = "done"
       /\ result[Main].mode = "basic"
       /\ result[Main].k = 3
       /\ last_error[Main] # NoError

====
